---- MODULE Spec2Model ----
(***************************************************************************)
(* Model of the single-car elevator controller elevator_controller of      *)
(* "HLS src/elevator_hls.cpp".  One call of the function is one cycle: it  *)
(* reads the request and the reset flag, updates the function's static     *)
(* variables and drives the four output ports.                             *)
(***************************************************************************)
EXTENDS Integers, FiniteSets, Sequences, TLC

\* ---------------------------------------------------------------- types
\* ap_uint<4> floor_t
FloorBits == 4
FloorMod == 2 ^ FloorBits
floor_t == 0 .. (FloorMod - 1)
\* ap_uint<2> state_t
state_t == 0 .. 3
\* ap_int<2> direction_t
direction_t == (0 - 2) .. 1

STATE_IDLE == 0
STATE_MOVING == 1
STATE_DOOR_OPEN == 2

DIR_DOWN == 0 - 1
DIR_IDLE == 0
DIR_UP == 1

\* floor_t arithmetic wraps at the width of the type
Inc_byTwo(x) == (x + 2) % FloorMod

Inc(x) == (x + 1) % FloorMod
Dec_byTwo(x) == (x + FloorMod - 2) % FloorMod

Dec(x) == (x + FloorMod - 1) % FloorMod

Abs(x) == IF x < 0 THEN 0 - x ELSE x

VARIABLES
    elevator_floor,      \* static floor_t elevator_floor
    elevator_state,      \* static state_t elevator_state
    elevator_direction,  \* static direction_t elevator_direction
    target_floor,        \* static floor_t target_floor
    has_target,          \* static bool has_target
    current_floor,       \* output port
    current_state,       \* output port
    current_direction,   \* output port
    request_accepted,    \* output port
    in_floor,            \* input_request.floor of the last call
    in_valid,            \* input_request.valid of the last call
    in_reset,            \* reset of the last call
    pre,                 \* the static variables at the start of the last call
    called,              \* TRUE once elevator_controller has been called
    pre_accepted,        \* the call before the last one accepted a request
    trk_on,              \* an accepted request is being followed
    trk_target,          \* its floor
    trk_dist,            \* its distance from the car when it was accepted
    trk_age              \* calls made since the accepting call

statics == <<elevator_floor, elevator_state, elevator_direction,
             target_floor, has_target>>
ports == <<current_floor, current_state, current_direction, request_accepted>>
inputs == <<in_floor, in_valid, in_reset>>
tracker == <<trk_on, trk_target, trk_dist, trk_age>>
vars == <<statics, ports, inputs, pre, called, pre_accepted, tracker>>

\* The static variables as one record
Statics == [elevator_floor |-> elevator_floor,
            elevator_state |-> elevator_state,
            elevator_direction |-> elevator_direction,
            target_floor |-> target_floor,
            has_target |-> has_target]

\* The initializers of the static variables
InitStatics == [elevator_floor |-> 1,
                elevator_state |-> STATE_IDLE,
                elevator_direction |-> DIR_IDLE,
                target_floor |-> 0,
                has_target |-> FALSE]

\* ---------------------------------------------------------------- paths
\* Each path maps a record of the statics (plus request_accepted once it
\* has been assigned) to the record after the path.

\* if (reset) { ... }
ResetPath_keepTarget(s) ==
    [elevator_floor |-> 1,
     elevator_state |-> STATE_IDLE,
     elevator_direction |-> DIR_IDLE,
     target_floor |-> s.target_floor,
     has_target |-> s.has_target,
     request_accepted |-> FALSE]

ResetPath(s) ==
    [elevator_floor |-> 1,
     elevator_state |-> STATE_IDLE,
     elevator_direction |-> DIR_IDLE,
     target_floor |-> 0,
     has_target |-> FALSE,
     request_accepted |-> FALSE]

\* input_request.floor > 0 && input_request.floor <= 15 &&
\* input_request.floor != elevator_floor
FloorOk_noSameFloorCheck(s, f) ==
    f > 0 /\ f <= 15

FloorOk_allowZero(s, f) ==
    f <= 15 /\ f # s.elevator_floor

FloorOk(s, f) ==
    f > 0 /\ f <= 15 /\ f # s.elevator_floor

\* input_request.valid && !has_target && elevator_state == STATE_IDLE
MayRequest_noIdleCheck(s, v) ==
    v /\ ~s.has_target

MayRequest(s, v) ==
    v /\ ~s.has_target /\ s.elevator_state = STATE_IDLE

\* the request-processing block
AcceptPath_storeBeforeCheck(s, f, v) ==
    IF MayRequest(s, v)
    THEN IF FloorOk(s, f)
         THEN [elevator_floor |-> s.elevator_floor,
               elevator_state |-> STATE_MOVING,
               elevator_direction |->
                   IF f > s.elevator_floor THEN DIR_UP ELSE DIR_DOWN,
               target_floor |-> f,
               has_target |-> TRUE,
               request_accepted |-> TRUE]
         ELSE [elevator_floor |-> s.elevator_floor,
               elevator_state |-> s.elevator_state,
               elevator_direction |-> s.elevator_direction,
               target_floor |-> f,
               has_target |-> s.has_target,
               request_accepted |-> FALSE]
    ELSE [elevator_floor |-> s.elevator_floor,
          elevator_state |-> s.elevator_state,
          elevator_direction |-> s.elevator_direction,
          target_floor |-> s.target_floor,
          has_target |-> s.has_target,
          request_accepted |-> FALSE]

AcceptPath_storeAlways(s, f, v) ==
    IF MayRequest(s, v) /\ FloorOk(s, f)
    THEN [elevator_floor |-> s.elevator_floor,
          elevator_state |-> STATE_MOVING,
          elevator_direction |->
              IF f > s.elevator_floor THEN DIR_UP ELSE DIR_DOWN,
          target_floor |-> f,
          has_target |-> TRUE,
          request_accepted |-> TRUE]
    ELSE [elevator_floor |-> s.elevator_floor,
          elevator_state |-> s.elevator_state,
          elevator_direction |-> s.elevator_direction,
          target_floor |-> IF v /\ f > 0 THEN f ELSE s.target_floor,
          has_target |-> s.has_target,
          request_accepted |-> FALSE]

AcceptPath(s, f, v) ==
    IF MayRequest(s, v) /\ FloorOk(s, f)
    THEN [elevator_floor |-> s.elevator_floor,
          elevator_state |-> STATE_MOVING,
          \* target_floor has just been assigned f
          elevator_direction |->
              IF f > s.elevator_floor THEN DIR_UP ELSE DIR_DOWN,
          target_floor |-> f,
          has_target |-> TRUE,
          request_accepted |-> TRUE]
    ELSE [elevator_floor |-> s.elevator_floor,
          elevator_state |-> s.elevator_state,
          elevator_direction |-> s.elevator_direction,
          target_floor |-> s.target_floor,
          has_target |-> s.has_target,
          request_accepted |-> FALSE]

\* if (elevator_floor < target_floor) {...} else if (elevator_floor > target_floor) {...}
MoveOne_wrongWay(s) ==
    IF s.elevator_floor < s.target_floor
    THEN [s EXCEPT !.elevator_floor = Dec(s.elevator_floor),
                   !.elevator_direction = DIR_DOWN]
    ELSE IF s.elevator_floor > s.target_floor
    THEN [s EXCEPT !.elevator_floor = Inc(s.elevator_floor),
                   !.elevator_direction = DIR_UP]
    ELSE s

MoveOne_swapDirection(s) ==
    IF s.elevator_floor < s.target_floor
    THEN [s EXCEPT !.elevator_floor = Inc(s.elevator_floor),
                   !.elevator_direction = DIR_DOWN]
    ELSE IF s.elevator_floor > s.target_floor
    THEN [s EXCEPT !.elevator_floor = Dec(s.elevator_floor),
                   !.elevator_direction = DIR_UP]
    ELSE s

MoveOne(s) ==
    IF s.elevator_floor < s.target_floor
    THEN [s EXCEPT !.elevator_floor = Inc(s.elevator_floor),
                   !.elevator_direction = DIR_UP]
    ELSE IF s.elevator_floor > s.target_floor
    THEN [s EXCEPT !.elevator_floor = Dec(s.elevator_floor),
                   !.elevator_direction = DIR_DOWN]
    ELSE s

\* if (elevator_floor == target_floor) { ... }
Arrive_keepTarget(s) ==
    IF s.elevator_floor = s.target_floor
    THEN [s EXCEPT !.elevator_state = STATE_DOOR_OPEN,
                   !.elevator_direction = DIR_IDLE]
    ELSE s

Arrive_keepDirection(s) ==
    IF s.elevator_floor = s.target_floor
    THEN [s EXCEPT !.elevator_state = STATE_DOOR_OPEN,
                   !.has_target = FALSE]
    ELSE s

Arrive(s) ==
    IF s.elevator_floor = s.target_floor
    THEN [s EXCEPT !.elevator_state = STATE_DOOR_OPEN,
                   !.elevator_direction = DIR_IDLE,
                   !.has_target = FALSE]
    ELSE s

\* the body of if (has_target && elevator_state == STATE_MOVING)
MovePath_checkFirst(s) == MoveOne(Arrive(s))

MovePath(s) == Arrive(MoveOne(s))

\* else if (elevator_state == STATE_DOOR_OPEN) elevator_state = STATE_IDLE
DoorPath_stayOpen(s) == s

DoorPath(s) == [s EXCEPT !.elevator_state = STATE_IDLE]

\* the movement / door block
MoveOrDoor_closeAtOnce(s) ==
    LET m == IF s.has_target /\ s.elevator_state = STATE_MOVING
             THEN MovePath(s) ELSE s
    IN IF m.elevator_state = STATE_DOOR_OPEN THEN DoorPath(m) ELSE m

MoveOrDoor(s) ==
    IF s.has_target /\ s.elevator_state = STATE_MOVING
    THEN MovePath(s)
    ELSE IF s.elevator_state = STATE_DOOR_OPEN
    THEN DoorPath(s)
    ELSE s

\* The whole function: the statics and request_accepted after a call made
\* with statics s, request (f, v) and reset r.
Controller(s, f, v, r) ==
    IF r THEN ResetPath(s) ELSE MoveOrDoor(AcceptPath(s, f, v))

\* ---------------------------------------------------------------- machine
Init ==
    /\ elevator_floor = InitStatics.elevator_floor
    /\ elevator_state = InitStatics.elevator_state
    /\ elevator_direction = InitStatics.elevator_direction
    /\ target_floor = InitStatics.target_floor
    /\ has_target = InitStatics.has_target
    \* the caller's port variables are not initialized before the first call
    /\ current_floor \in floor_t
    /\ current_state \in state_t
    /\ current_direction \in direction_t
    /\ request_accepted \in BOOLEAN
    /\ in_floor = 0
    /\ in_valid = FALSE
    /\ in_reset = FALSE
    /\ pre = InitStatics
    /\ called = FALSE
    /\ pre_accepted = FALSE
    /\ trk_on = FALSE
    /\ trk_target = 0
    /\ trk_dist = 0
    /\ trk_age = 0

\* Follows the last accepted request: its floor, its distance and the number
\* of calls made since it was accepted; dropped by reset and once the
\* distance has been counted down.
Track(n, f, r) ==
    IF r THEN
        /\ trk_on' = FALSE /\ trk_target' = 0 /\ trk_dist' = 0 /\ trk_age' = 0
    ELSE IF n.request_accepted THEN
        /\ trk_on' = TRUE
        /\ trk_target' = f
        /\ trk_dist' = Abs(f - elevator_floor)
        /\ trk_age' = 0
    ELSE IF trk_on /\ trk_age < trk_dist THEN
        /\ trk_age' = trk_age + 1
        /\ UNCHANGED <<trk_on, trk_target, trk_dist>>
    ELSE
        /\ trk_on' = FALSE /\ trk_target' = 0 /\ trk_dist' = 0 /\ trk_age' = 0

elevator_controller(f, v, r) ==
    LET n == Controller(Statics, f, v, r) IN
    /\ elevator_floor' = n.elevator_floor
    /\ elevator_state' = n.elevator_state
    /\ elevator_direction' = n.elevator_direction
    /\ target_floor' = n.target_floor
    /\ has_target' = n.has_target
    /\ request_accepted' = n.request_accepted
    \* Update output ports
    /\ current_floor' = n.elevator_floor
    /\ current_state' = n.elevator_state
    /\ current_direction' = n.elevator_direction
    /\ in_floor' = f
    /\ in_valid' = v
    /\ in_reset' = r
    /\ pre' = Statics
    /\ called' = TRUE
    /\ pre_accepted' = (called /\ request_accepted)
    /\ Track(n, f, r)

Next == \E f \in floor_t, v \in BOOLEAN, r \in BOOLEAN : elevator_controller(f, v, r)

Spec == Init /\ [][Next]_vars

TypeOK ==
    /\ elevator_floor \in floor_t
    /\ elevator_state \in state_t
    /\ elevator_direction \in direction_t
    /\ target_floor \in floor_t
    /\ has_target \in BOOLEAN
    /\ current_floor \in floor_t
    /\ current_state \in state_t
    /\ current_direction \in direction_t
    /\ request_accepted \in BOOLEAN

\* ---------------------------------------------------------------- claims
\* The last call was made without reset
NoResetCall == called /\ ~in_reset

\* A target was held when the movement block of the last call was evaluated
HeldAtMove == pre.has_target \/ request_accepted

\* ... and this was the target
TargetAtMove == IF request_accepted THEN in_floor ELSE pre.target_floor

\* C1: a call with reset asserted ends, from every state and for every
\* request, with floor 1, state Idle, direction Idle, no target held and
\* request_accepted false, which is the state of a fresh controller.
C1_ResetYieldsFresh ==
    (called /\ in_reset) =>
        /\ Statics = InitStatics
        /\ current_floor = 1
        /\ current_state = STATE_IDLE
        /\ current_direction = DIR_IDLE
        /\ ~has_target
        /\ request_accepted = FALSE

\* reset asserted while the car was moving
C1_Witness ==
    /\ called /\ in_reset
    /\ pre.elevator_state = STATE_MOVING /\ pre.has_target
    /\ pre.elevator_floor # 1
    /\ in_valid /\ in_floor > 0

\* C2: in a call without reset, request_accepted is true exactly when the
\* request is valid, the car was Idle with no target at the start of the
\* call, and the floor is in 1..15 and differs from the car's floor.
C2_AcceptedIff ==
    NoResetCall =>
        (request_accepted <=>
            /\ in_valid
            /\ pre.elevator_state = STATE_IDLE
            /\ ~pre.has_target
            /\ 1 <= in_floor /\ in_floor <= 15
            /\ in_floor # pre.elevator_floor)

\* a request accepted from a floor other than the initial one
C2_Witness ==
    /\ NoResetCall /\ request_accepted
    /\ pre.elevator_floor = 15 /\ in_floor = 1

\* C3 as stated: a call without reset that rejects the request leaves floor,
\* state, direction and held target as they were, from every state.
C3_RejectedChangesNothing ==
    (NoResetCall /\ ~request_accepted) => Statics = pre

\* C3 amended: a call without reset that rejects the request takes no target
\* (target_floor is not written and has_target is not set), and when the
\* call starts in Idle the floor, state, direction and held target are left
\* as they were.
C3_RejectedTakesNoTarget ==
    (NoResetCall /\ ~request_accepted) =>
        /\ target_floor = pre.target_floor
        /\ has_target => pre.has_target
        /\ pre.elevator_state = STATE_IDLE => Statics = pre

\* a valid request for the car's own floor, rejected in Idle
C3_Witness ==
    /\ NoResetCall /\ ~request_accepted /\ in_valid
    /\ pre.elevator_state = STATE_IDLE
    /\ in_floor = pre.elevator_floor /\ in_floor # pre.target_floor

\* C4 as stated: every accepting call reports Moving and the direction of
\* the requested floor, for every accepted floor.
C4_AcceptReportsMoving ==
    (NoResetCall /\ request_accepted) =>
        /\ current_state = STATE_MOVING
        /\ current_direction =
               IF in_floor > pre.elevator_floor THEN DIR_UP ELSE DIR_DOWN

\* C4 amended: an accepting call reports request_accepted true; when the
\* requested floor is two or more floors away it reports Moving with
\* direction Up if the floor is above and Down if below; when it is one
\* floor away the car arrives in the same call, which reports DoorOpen at
\* the requested floor with direction Idle.
C4_AcceptReports ==
    (NoResetCall /\ request_accepted) =>
        IF Abs(in_floor - pre.elevator_floor) >= 2
        THEN /\ current_state = STATE_MOVING
             /\ current_direction =
                    IF in_floor > pre.elevator_floor THEN DIR_UP ELSE DIR_DOWN
        ELSE /\ current_state = STATE_DOOR_OPEN
             /\ current_direction = DIR_IDLE
             /\ current_floor = in_floor

\* a request for a lower floor, several floors away, accepted
C4_Witness ==
    /\ NoResetCall /\ request_accepted
    /\ in_floor < pre.elevator_floor - 2
    /\ current_direction = DIR_DOWN

\* C5: in a call without reset in which a target is held when the movement
\* block is evaluated, the floor moves by exactly one and the distance to
\* the target shrinks by exactly one; the target stays held while the
\* distance is not 0.
C5_OneFloorCloser ==
    (NoResetCall /\ HeldAtMove) =>
        /\ Abs(elevator_floor - pre.elevator_floor) = 1
        /\ Abs(elevator_floor - TargetAtMove)
               = Abs(pre.elevator_floor - TargetAtMove) - 1
        /\ elevator_floor # TargetAtMove =>
               (has_target /\ target_floor = TargetAtMove)

\* a downward move toward a target held from an earlier call
C5_Witness ==
    /\ NoResetCall /\ pre.has_target
    /\ pre.elevator_floor > pre.target_floor + 1
    /\ elevator_floor = pre.elevator_floor - 1
    /\ in_valid

\* C6: with reset deasserted, a request for floor t accepted at distance d
\* has the controller report floor t with DoorOpen d-1 calls after the
\* accepting call and floor t with Idle d calls after it, whatever is
\* requested meanwhile; before that it reports Moving.
C6_ServedOnTime ==
    trk_on =>
        /\ trk_age < trk_dist - 1 => current_state = STATE_MOVING
        /\ trk_age = trk_dist - 1 =>
               (current_floor = trk_target /\ current_state = STATE_DOOR_OPEN)
        /\ trk_age = trk_dist =>
               (current_floor = trk_target /\ current_state = STATE_IDLE)

\* a request four or more floors away served, with a request presented in
\* the last call
C6_Witness ==
    /\ trk_on /\ trk_dist >= 4 /\ trk_age = trk_dist
    /\ in_valid /\ in_floor # trk_target /\ in_floor > 0
    /\ current_state = STATE_IDLE

\* C7: a call that starts in DoorOpen never ends in DoorOpen or Moving, and
\* without reset it ends in Idle at the same floor with direction Idle and
\* the request rejected.
C7_SingleDwell ==
    (called /\ pre.elevator_state = STATE_DOOR_OPEN) =>
        /\ current_state # STATE_DOOR_OPEN
        /\ current_state # STATE_MOVING
        /\ ~in_reset =>
               /\ current_state = STATE_IDLE
               /\ current_floor = pre.elevator_floor
               /\ current_direction = DIR_IDLE
               /\ ~request_accepted

\* a valid request for another floor presented while the door is open
C7_Witness ==
    /\ NoResetCall /\ pre.elevator_state = STATE_DOOR_OPEN
    /\ in_valid /\ in_floor > 0 /\ in_floor # pre.elevator_floor

\* The statics and the outputs of a call
Outcome(n) == <<n.elevator_floor, n.elevator_state, n.elevator_direction,
                n.target_floor, n.has_target, n.request_accepted>>

\* C8: a call without reset that rejects a request ends in the same statics
\* and outputs as the same call made with no request (valid false).
C8_RejectedIsNoRequest ==
    /\ \A f \in floor_t :
           ~Controller(Statics, f, TRUE, FALSE).request_accepted =>
               \A g \in floor_t :
                   Outcome(Controller(Statics, f, TRUE, FALSE))
                       = Outcome(Controller(Statics, g, FALSE, FALSE))
    /\ (NoResetCall /\ in_valid /\ ~request_accepted) =>
           /\ <<elevator_floor, elevator_state, elevator_direction,
                target_floor, has_target, request_accepted>>
                  = Outcome(Controller(pre, 0, FALSE, FALSE))
           /\ target_floor = pre.target_floor

\* a valid request for another floor rejected while the car was moving
C8_Witness ==
    /\ NoResetCall /\ in_valid /\ ~request_accepted
    /\ pre.elevator_state = STATE_MOVING
    /\ in_floor > 0 /\ in_floor # pre.target_floor
    /\ in_floor # pre.elevator_floor

\* C9: after every call a target is held exactly when the state is Moving,
\* and the target is cleared in the call in which the floor reaches it.
C9_TargetIffMoving ==
    /\ has_target <=> (elevator_state = STATE_MOVING)
    /\ called => (has_target <=> (current_state = STATE_MOVING))
    /\ (NoResetCall /\ HeldAtMove /\ elevator_floor = TargetAtMove) =>
           ~has_target

\* the car reached a target held from an earlier call
C9_Witness ==
    /\ NoResetCall /\ pre.has_target
    /\ elevator_floor = pre.target_floor
    /\ ~has_target

\* C10: after every call the direction is Idle whenever the state is not
\* Moving.
C10_DirectionIdleUnlessMoving ==
    /\ elevator_state # STATE_MOVING => elevator_direction = DIR_IDLE
    /\ (called /\ current_state # STATE_MOVING) => current_direction = DIR_IDLE

\* the door opened after a downward move
C10_Witness ==
    /\ NoResetCall /\ pre.elevator_direction = DIR_DOWN
    /\ elevator_state = STATE_DOOR_OPEN
    /\ elevator_direction = DIR_IDLE

\* C11 as stated: across every call, reset or not, the floor changes by at
\* most one, and when it changes it moves toward the held target.
C11_AtMostOneFloorAnyCall ==
    called =>
        /\ Abs(elevator_floor - pre.elevator_floor) <= 1
        /\ elevator_floor # pre.elevator_floor =>
               /\ HeldAtMove
               /\ Abs(elevator_floor - TargetAtMove)
                      < Abs(pre.elevator_floor - TargetAtMove)

\* C11 amended: across every call made without reset the floor changes by
\* at most one, and when it changes it moves toward the held target; a call
\* with reset puts the floor at 1 from whatever floor the car was at.
C11_AtMostOneFloor ==
    /\ NoResetCall =>
           /\ Abs(elevator_floor - pre.elevator_floor) <= 1
           /\ elevator_floor # pre.elevator_floor =>
                  /\ HeldAtMove
                  /\ Abs(elevator_floor - TargetAtMove)
                         < Abs(pre.elevator_floor - TargetAtMove)
    /\ (called /\ in_reset) => elevator_floor = 1

\* a downward move of one floor while a request for a floor above is made
C11_Witness ==
    /\ NoResetCall /\ pre.has_target
    /\ elevator_floor = pre.elevator_floor - 1
    /\ in_valid /\ in_floor > pre.elevator_floor

\* the car was Idle and the last call accepted a request one floor away
AdjacentAccept ==
    /\ pre.elevator_state = STATE_IDLE
    /\ request_accepted
    /\ Abs(in_floor - pre.elevator_floor) = 1

\* The transitions of the state machine summary
SummaryTransition ==
    \/ in_reset /\ elevator_state = STATE_IDLE
    \/ pre.elevator_state = STATE_IDLE /\ elevator_state = STATE_IDLE
    \/ /\ pre.elevator_state = STATE_IDLE /\ elevator_state = STATE_MOVING
       /\ request_accepted
    \/ pre.elevator_state = STATE_MOVING /\ elevator_state = STATE_MOVING
    \/ /\ pre.elevator_state = STATE_MOVING /\ elevator_state = STATE_DOOR_OPEN
       /\ elevator_floor = pre.target_floor
    \/ pre.elevator_state = STATE_DOOR_OPEN /\ elevator_state = STATE_IDLE

\* C12 as stated: in one call the state changes only along Idle -> Moving,
\* Moving -> DoorOpen, DoorOpen -> Idle and any -> Idle on reset, or stays
\* Idle or Moving; Idle is never followed directly by DoorOpen.
C12_OnlySummaryTransitions ==
    called => SummaryTransition

\* C12 amended: as stated, with one more transition: Idle -> DoorOpen, in a
\* call that accepts a request for a floor one away (the car arrives in the
\* accepting call).  Moving is never followed by Idle without reset.
C12_Transitions ==
    called =>
        \/ SummaryTransition
        \/ /\ AdjacentAccept /\ ~in_reset
           /\ elevator_state = STATE_DOOR_OPEN
           /\ elevator_floor = in_floor

\* the car arrived at a target accepted in an earlier call
C12_Witness ==
    /\ NoResetCall
    /\ pre.elevator_state = STATE_MOVING
    /\ elevator_state = STATE_DOOR_OPEN
    /\ trk_dist >= 3

\* C13: a call without reset that starts in Idle and is given no request, a
\* request for floor 0 or a request for the car's floor reports
\* request_accepted false and leaves floor, state (Idle), direction (Idle)
\* and the absence of a target as they were.
C13_IdleStaysIdle ==
    (/\ NoResetCall
     /\ pre.elevator_state = STATE_IDLE
     /\ (~in_valid \/ in_floor = 0 \/ in_floor = pre.elevator_floor)) =>
        /\ ~request_accepted
        /\ elevator_floor = pre.elevator_floor
        /\ current_floor = pre.elevator_floor
        /\ elevator_state = STATE_IDLE /\ current_state = STATE_IDLE
        /\ elevator_direction = DIR_IDLE /\ current_direction = DIR_IDLE
        /\ ~has_target /\ ~pre.has_target
        /\ target_floor = pre.target_floor

\* a valid request for floor 0 given to an Idle car away from floor 1
C13_Witness ==
    /\ NoResetCall /\ pre.elevator_state = STATE_IDLE
    /\ in_valid /\ in_floor = 0
    /\ pre.elevator_floor > 1

\* C14: whenever a call ends in DoorOpen the floor is the floor of the most
\* recently accepted request, and while a target is held it is that floor.
C14_DoorOpensAtRequestedFloor ==
    /\ elevator_state = STATE_DOOR_OPEN =>
           (trk_on /\ elevator_floor = trk_target)
    /\ (called /\ current_state = STATE_DOOR_OPEN) =>
           (trk_on /\ current_floor = trk_target)
    /\ has_target => (trk_on /\ target_floor = trk_target)

\* the door opened three or more floors from where the request was accepted,
\* in a call given a request for another floor
C14_Witness ==
    /\ NoResetCall /\ elevator_state = STATE_DOOR_OPEN
    /\ trk_on /\ trk_dist >= 3
    /\ in_valid /\ in_floor > 0 /\ in_floor # trk_target

\* C15: the floor is always within 1..15, and no call takes it from 15 to 0
\* or from 0 to 15.
C15_FloorInRange ==
    /\ elevator_floor >= 1 /\ elevator_floor <= 15
    /\ called => (current_floor >= 1 /\ current_floor <= 15)
    /\ called => ~(pre.elevator_floor = 15 /\ elevator_floor = 0)
    /\ called => ~(pre.elevator_floor = 0 /\ elevator_floor = 15)

\* the car moved up to floor 15
C15_Witness ==
    /\ NoResetCall /\ pre.elevator_floor = 14
    /\ elevator_floor = 15

\* C16: whenever the state is Moving the floor differs from the held target
\* and the direction is Up exactly when the target is above the floor and
\* Down exactly when it is below.
C16_DirectionTowardTarget ==
    elevator_state = STATE_MOVING =>
        /\ has_target
        /\ elevator_floor # target_floor
        /\ (elevator_direction = DIR_UP) <=> (target_floor > elevator_floor)
        /\ (elevator_direction = DIR_DOWN) <=> (target_floor < elevator_floor)
        /\ elevator_direction # DIR_IDLE
        /\ called => (current_direction = elevator_direction
                      /\ current_state = STATE_MOVING)

\* the car is moving down, two calls or more after the request was accepted
C16_Witness ==
    /\ NoResetCall /\ elevator_state = STATE_MOVING
    /\ elevator_direction = DIR_DOWN
    /\ trk_on /\ trk_age >= 1

\* C17: request_accepted is never true after two consecutive calls; a call
\* that accepts a request ends in Moving or DoorOpen.
C17_AcceptedIsPulse ==
    /\ pre_accepted => ~request_accepted
    /\ (called /\ request_accepted) =>
           elevator_state \in {STATE_MOVING, STATE_DOOR_OPEN}

\* a valid request for another floor made right after an accepting call
\* that opened the door
C17_Witness ==
    /\ NoResetCall /\ pre_accepted
    /\ pre.elevator_state = STATE_DOOR_OPEN
    /\ in_valid /\ in_floor > 0 /\ in_floor # pre.elevator_floor

====
